---- MODULE Spec2Model ----
(***************************************************************************)
(* ZinChat: the WebSocket relay of src/zinchat/main.py (the registry       *)
(* connected_clients, the per-connection session websocket_endpoint, the   *)
(* periodic emitter device_sensor_broadcast) and the responder             *)
(* DeviceSimulator.handle_command of src/zinchat/device_simulator.py.      *)
(*                                                                         *)
(* Text is a sequence of one-character strings, so that strip, lower,      *)
(* startswith and slicing are computed as Python computes them.            *)
(*                                                                         *)
(* Tasks run on one asyncio loop: a task runs without interruption from    *)
(* one await to the next, so every action below is the code between two    *)
(* awaits.  A send to a connection whose peer has gone raises              *)
(* WebSocketDisconnect, the only failure the code handles.                 *)
(***************************************************************************)
EXTENDS Integers, Sequences, FiniteSets, TLC

\* ------------------------------------------------------------------ bounds
NConn == 3         \* connections that may arrive
MaxFrames == 2     \* inbound text frames read by all sessions together
MaxWakes == 1      \* wakes of the periodic emitter

\* ------------------------------------------------------- program constants
SensorMin == 0     \* random.randint(0, 100)
SensorMax == 100

Conn == 1..NConn
Emitter == 0       \* the task of device_sensor_broadcast, which is no connection

\* -------------------------------------------------------------------- text
UpperChars == <<"A","B","C","D","E","F","G","H","I","J","K","L","M",
                "N","O","P","Q","R","S","T","U","V","W","X","Y","Z">>
LowerChars == <<"a","b","c","d","e","f","g","h","i","j","k","l","m",
                "n","o","p","q","r","s","t","u","v","w","x","y","z">>
DigitChars == <<"0","1","2","3","4","5","6","7","8","9">>

\* str.isspace() for the characters str.strip() removes
IsSpace(ch) == ch \in {" ", "\t", "\n", "\r"}

LowerChar(ch) ==
    IF \E i \in 1..Len(UpperChars) : UpperChars[i] = ch
    THEN LowerChars[CHOOSE i \in 1..Len(UpperChars) : UpperChars[i] = ch]
    ELSE ch

\* str.lower()
Lower(s) == [i \in 1..Len(s) |-> LowerChar(s[i])]

RECURSIVE LStrip(_)
LStrip(s) == IF s # <<>> /\ IsSpace(Head(s)) THEN LStrip(Tail(s)) ELSE s

RECURSIVE RStrip(_)
RStrip(s) ==
    IF s # <<>> /\ IsSpace(s[Len(s)]) THEN RStrip(SubSeq(s, 1, Len(s) - 1)) ELSE s

\* str.strip()
Strip(s) == RStrip(LStrip(s))

\* str.startswith(p)
StartsWith(s, p) == Len(s) >= Len(p) /\ SubSeq(s, 1, Len(p)) = p

\* s[n:]
DropFirst(s, n) == SubSeq(s, n + 1, Len(s))

\* t in s
Contains(s, t) ==
    \E i \in 0..(Len(s) - Len(t)) : SubSeq(s, i + 1, i + Len(t)) = t

\* str(n) of a non-negative integer, as an f-string formats it
RECURSIVE Str(_)
Str(n) == IF n < 10 THEN <<DigitChars[n + 1]>>
          ELSE Str(n \div 10) \o <<DigitChars[(n % 10) + 1]>>

\* ---------------------------------------------------------------- literals
DevicePrefix == <<"/","d","e","v","i","c","e">>
StatusWord == <<"s","t","a","t","u","s">>
StartWord == <<"s","t","a","r","t">>
StopWord == <<"s","t","o","p">>

ReadingHead ==
    <<"C","u","r","r","e","n","t"," ","s","e","n","s","o","r"," ",
      "r","e","a","d","i","n","g"," ","i","s"," ">>
StartedText ==
    <<"D","e","v","i","c","e"," ","h","a","s"," ","b","e","e","n"," ",
      "s","t","a","r","t","e","d",".">>
StoppedText ==
    <<"D","e","v","i","c","e"," ","h","a","s"," ","b","e","e","n"," ",
      "s","t","o","p","p","e","d",".">>
UsageText ==
    <<"N","o"," ","c","o","m","m","a","n","d"," ","p","r","o","v","i","d","e","d",".",
      " ","T","r","y"," ","'","/","d","e","v","i","c","e"," ",
      "s","t","a","t","u","s","'",".">>
UnknownHead ==
    <<"U","n","k","n","o","w","n"," ","d","e","v","i","c","e"," ",
      "c","o","m","m","a","n","d",":"," ","'">>
UnknownTail == <<"'",".">>

DeviceTag == <<"D","e","v","i","c","e"," ","➤"," ">>
UserTag == <<"U","s","e","r"," ","➤"," ">>
SensorHead == <<"S","e","n","s","o","r"," ","r","e","a","d","i","n","g",":"," ">>

\* ------------------------------------------------------------ the responder
\* The dispatch of handle_command on the normalised command; value is the
\* integer random.randint returns.
Dispatch(cmd, value) ==
    IF cmd = StatusWord THEN ReadingHead \o Str(value) \o <<".">>
    ELSE IF cmd = StartWord THEN StartedText
    ELSE IF cmd = StopWord THEN StoppedText
    ELSE IF cmd = <<>> THEN UsageText
    ELSE UnknownHead \o cmd \o UnknownTail

\* a variant of Normalise without the final lower()
NormaliseKeepsCase(command) ==
    LET cmd == Strip(command)
        cut == IF StartsWith(Lower(cmd), DevicePrefix)
               THEN DropFirst(cmd, Len(DevicePrefix))
               ELSE cmd
    IN  Strip(cut)

\* cmd after "Normalise and strip any prefix"
Normalise(command) ==
    LET cmd == Strip(command)
        cut == IF StartsWith(Lower(cmd), DevicePrefix)
               THEN DropFirst(cmd, Len(DevicePrefix))
               ELSE cmd
    IN  Lower(Strip(cut))

handle_command(command, value) == Dispatch(Normalise(command), value)

\* a variant of IsDeviceCommand without lower()
IsDeviceCommandCaseSensitive(data) == StartsWith(Strip(data), DevicePrefix)

\* the test of the session loop: data.strip().lower().startswith("/device")
IsDeviceCommand(data) == StartsWith(Lower(Strip(data)), DevicePrefix)

\* ------------------------------------------------------------------ inputs
Hello == <<"h","e","l","l","o">>
DeviceStatus == DevicePrefix \o <<" ">> \o StatusWord

\* the text frames the clients of the relay send
ChatInputs == {Hello, DeviceStatus}

\* frames for the classification and the responder: an optional prefix in
\* three spellings, a separator, a command word and surrounding white space
Leads == {<<>>, <<" ">>}
Prefixes == {<<>>, DevicePrefix, <<"/","D","E","V","I","C","E">>,
             <<"/","D","e","v","i","c","e">>}
Seps == {<<>>, <<" ">>}
Bodies == {<<>>, StatusWord, <<"S","T","A","T","U","S">>, StartWord,
           <<"S","t","o","p">>, <<"f","o","o">>, <<"F","o","o">>,
           <<"s","t","a","t","u","s"," ","n","o","w">>, Hello,
           DevicePrefix \o <<" ">> \o StatusWord}
Trails == {<<>>, <<" ">>, <<"\n">>}
CmdInputs ==
    {l \o p \o sp \o b \o t :
        l \in Leads, p \in Prefixes, sp \in Seps, b \in Bodies, t \in Trails}

\* the integers random.randint(SensorMin, SensorMax) is sampled at
SensorValues == {SensorMin, SensorMax}

\* ------------------------------------------------------------------- state
VARIABLES
    connected_clients,  \* main.py:39, the registry: a list of connections
    pc,                 \* per connection: where its websocket_endpoint task is
    idx,                \* per session: items the iterator of line 128 has consumed
    text,               \* per session: broadcast_text of the running chat broadcast
    closed,             \* per connection: its peer has gone (sends to it raise)
    epc,                \* where device_sensor_broadcast is
    snapshot,           \* the emitter's list(connected_clients) of line 153
    eidx,               \* items of snapshot the emitter has consumed
    message,            \* the emitter's message of line 152
    last,               \* the send_text call of the latest step, if it made one
    calls,              \* per originator: the record of its running broadcast
    finished,           \* the record of the broadcast the latest step completed
    dropped,            \* running sessions' connections removed after a failed send
    reply,              \* the latest handle_command call, made on its own
    feed,               \* the frames clients send in this run
    frames,             \* frames read so far
    wakes               \* emitter wakes so far

vars == <<connected_clients, pc, idx, text, closed, epc, snapshot, eidx, message,
          last, calls, finished, dropped, reply, feed, frames, wakes>>

Origin == Conn \cup {Emitter}

\* x in lst
InList(lst, x) == \E i \in 1..Len(lst) : lst[i] = x

\* the elements of a list
Elems(lst) == {lst[i] : i \in 1..Len(lst)}

\* a variant of RemoveFirst that deletes the head of the list, whatever x is
RemoveHead(lst, x) == Tail(lst)

\* lst.remove(x): the first occurrence goes (x is in lst)
RemoveFirst(lst, x) ==
    LET k == CHOOSE i \in 1..Len(lst) : lst[i] = x /\ \A j \in 1..(i - 1) : lst[j] # x
    IN  SubSeq(lst, 1, k - 1) \o SubSeq(lst, k + 1, Len(lst))

\* a variant of Discard that pops the last entry instead of removing x
DiscardLast(lst, x) == IF lst # <<>> THEN SubSeq(lst, 1, Len(lst) - 1) ELSE lst

\* a variant of Discard that puts x back when it is not in the list
DiscardOrAppend(lst, x) == IF InList(lst, x) THEN RemoveFirst(lst, x) ELSE Append(lst, x)

\* "if client in connected_clients: connected_clients.remove(client)"
Discard(lst, x) == IF InList(lst, x) THEN RemoveFirst(lst, x) ELSE lst

\* A send_text call: the connection written to, the text, the task that made
\* the call (a session's connection, or Emitter) and whether it returned (ok)
\* or raised WebSocketDisconnect.
NoSend == [made |-> FALSE, to |-> 0, text |-> <<>>, src |-> 0, ok |-> FALSE]

\* client.send_text(txt) called by task src
SendText(client, txt, src) ==
    [made |-> TRUE, to |-> client, text |-> txt, src |-> src, ok |-> ~closed[client]]

\* The record of a broadcast call: the task that makes it, the registry when
\* it began, the connections whose session had ended by then, the recipients
\* a send was attempted to (in order), those whose send raised, those the call
\* removed from the registry, and the connections appended to or removed from
\* the registry (by any task) since the call began.
NoCall == [active |-> FALSE, kind |-> "none", by |-> 0, start |-> <<>>, gone |-> {},
           att |-> <<>>, fail |-> {}, pruned |-> {}, added |-> {}, removed |-> {}]

NewCall(k, x, reg) ==
    [NoCall EXCEPT !.active = TRUE, !.kind = k, !.by = x, !.start = reg,
                   !.gone = {c \in Conn : pc[c] = "done"}]

NoReply == [made |-> FALSE, command |-> <<>>, value |-> 0, response |-> <<>>]

NoteAdded(cs, c) ==
    [x \in Origin |-> IF cs[x].active THEN [cs[x] EXCEPT !.added = @ \cup {c}] ELSE cs[x]]

NoteRemoved(cs, lst, c) ==
    [x \in Origin |-> IF cs[x].active /\ InList(lst, c)
                      THEN [cs[x] EXCEPT !.removed = @ \cup {c}] ELSE cs[x]]

\* the record of originator x after a send to client was attempted
NoteSend(cs, lst, x, client) ==
    [NoteRemoved(cs, lst, IF closed[client] THEN client ELSE 0) EXCEPT
        ![x].att = Append(@, client),
        ![x].fail = IF closed[client] THEN @ \cup {client} ELSE @,
        ![x].pruned = IF closed[client] /\ InList(lst, client) THEN @ \cup {client} ELSE @]

Init ==
    /\ connected_clients = <<>>
    /\ pc = [c \in Conn |-> "idle"]
    /\ idx = [c \in Conn |-> 0]
    /\ text = [c \in Conn |-> <<>>]
    /\ closed = [c \in Conn |-> FALSE]
    /\ epc = "waiting"
    /\ snapshot = <<>>
    /\ eidx = 0
    /\ message = <<>>
    /\ last = NoSend
    /\ calls = [x \in Origin |-> NoCall]
    /\ finished = NoCall
    /\ dropped = {}
    /\ reply = NoReply
    /\ feed = ChatInputs
    /\ frames = 0
    /\ wakes = 0

\* ------------------------------------------------------------- the sessions
\* connections are numbered in the order in which they arrive
Arrives(ws) == pc[ws] = "idle" /\ \A c \in 1..(ws - 1) : pc[c] # "idle"

\* a variant of Connect that appends before accept has completed
ConnectBeforeAccept(ws) ==
    /\ Arrives(ws)
    /\ connected_clients' = Append(connected_clients, ws)
    /\ calls' = NoteAdded(calls, ws)
    /\ last' = NoSend
    /\ finished' = NoCall
    /\ UNCHANGED <<pc, idx, text, closed, epc, snapshot, eidx, message, dropped, reply,
                   feed, frames, wakes>>

\* lines 116-117: accept completes and the connection is appended
Connect(ws) ==
    /\ Arrives(ws)
    /\ connected_clients' = Append(connected_clients, ws)
    /\ pc' = [pc EXCEPT ![ws] = "reading"]
    /\ calls' = NoteAdded(calls, ws)
    /\ last' = NoSend
    /\ finished' = NoCall
    /\ UNCHANGED <<idx, text, closed, epc, snapshot, eidx, message, dropped, reply,
                   feed, frames, wakes>>

\* line 116: the peer goes during the handshake, accept raises outside the try
ConnectFail(ws) ==
    /\ Arrives(ws)
    /\ pc' = [pc EXCEPT ![ws] = "done"]
    /\ closed' = [closed EXCEPT ![ws] = TRUE]
    /\ last' = NoSend
    /\ finished' = NoCall
    /\ UNCHANGED <<connected_clients, idx, text, epc, snapshot, eidx, message, calls,
                   dropped, reply, feed, frames, wakes>>

\* the peer of an accepted connection goes away
PeerClose(ws) ==
    /\ pc[ws] \in {"reading", "bcast"}
    /\ ~closed[ws]
    /\ closed' = [closed EXCEPT ![ws] = TRUE]
    /\ last' = NoSend
    /\ finished' = NoCall
    /\ UNCHANGED <<connected_clients, pc, idx, text, epc, snapshot, eidx, message,
                   calls, dropped, reply, feed, frames, wakes>>

\* a variant of Disconnected that leaves the connection registered
DisconnectedKeepsEntry(ws) ==
    /\ connected_clients' = connected_clients
    /\ pc' = [pc EXCEPT ![ws] = "done"]
    /\ idx' = [idx EXCEPT ![ws] = 0]
    /\ text' = [text EXCEPT ![ws] = <<>>]
    /\ calls' = calls
    /\ dropped' = dropped \ {ws}
    /\ finished' = NoCall

\* lines 136-138: the handler of WebSocketDisconnect, which ends the session
Disconnected(ws) ==
    /\ connected_clients' = Discard(connected_clients, ws)
    /\ pc' = [pc EXCEPT ![ws] = "done"]
    /\ idx' = [idx EXCEPT ![ws] = 0]
    /\ text' = [text EXCEPT ![ws] = <<>>]
    /\ calls' = NoteRemoved(calls, connected_clients, ws)
    /\ dropped' = dropped \ {ws}
    /\ finished' = NoCall

\* the running sessions whose connection a failed send has removed
Dropped(d, lst, client) ==
    IF InList(lst, client) /\ pc[client] # "done" THEN d \cup {client} ELSE d

\* a variant of SkipSelf without the test "client is not websocket"
SkipNone(lst, i, ws) == i

\* line 128: the list iterator steps over the sender ("client is not websocket")
RECURSIVE SkipSelf(_, _, _)
SkipSelf(lst, i, ws) ==
    IF i < Len(lst) /\ lst[i + 1] = ws THEN SkipSelf(lst, i + 1, ws) ELSE i

\* a variant of ChatIter without the inner try: a send that raises reaches the
\* handler of line 136 and ends the sender's session
ChatIterPropagates(ws, i0, btext, cs) ==
    LET i == SkipSelf(connected_clients, i0, ws) IN
    IF i >= Len(connected_clients)
    THEN /\ pc' = [pc EXCEPT ![ws] = "reading"]
         /\ idx' = [idx EXCEPT ![ws] = 0]
         /\ text' = [text EXCEPT ![ws] = <<>>]
         /\ calls' = [cs EXCEPT ![ws] = NoCall]
         /\ finished' = [cs[ws] EXCEPT !.active = FALSE]
         /\ last' = NoSend
         /\ UNCHANGED <<connected_clients, dropped>>
    ELSE LET client == connected_clients[i + 1] IN
         /\ last' = SendText(client, btext, ws)
         /\ IF closed[client]
            THEN Disconnected(ws)
            ELSE /\ pc' = [pc EXCEPT ![ws] = "bcast"]
                 /\ idx' = [idx EXCEPT ![ws] = i + 1]
                 /\ text' = [text EXCEPT ![ws] = btext]
                 /\ calls' = NoteSend(cs, connected_clients, ws, client)
                 /\ finished' = NoCall
                 /\ UNCHANGED <<connected_clients, dropped>>

\* lines 128-135: the chat loop from iterator position i0 to its next await.
\* The iterator reads the registry itself, as it is when the task resumes.
ChatIter(ws, i0, btext, cs) ==
    LET i == SkipSelf(connected_clients, i0, ws) IN
    IF i >= Len(connected_clients)
    THEN /\ pc' = [pc EXCEPT ![ws] = "reading"]
         /\ idx' = [idx EXCEPT ![ws] = 0]
         /\ text' = [text EXCEPT ![ws] = <<>>]
         /\ calls' = [cs EXCEPT ![ws] = NoCall]
         /\ finished' = [cs[ws] EXCEPT !.active = FALSE]
         /\ last' = NoSend
         /\ UNCHANGED <<connected_clients, dropped>>
    ELSE LET client == connected_clients[i + 1] IN
         /\ pc' = [pc EXCEPT ![ws] = "bcast"]
         /\ idx' = [idx EXCEPT ![ws] = i + 1]
         /\ text' = [text EXCEPT ![ws] = btext]
         /\ last' = SendText(client, btext, ws)
         /\ calls' = NoteSend(cs, connected_clients, ws, client)
         /\ finished' = NoCall
         /\ connected_clients' = IF closed[client]
                                 THEN Discard(connected_clients, client)
                                 ELSE connected_clients
         /\ dropped' = IF closed[client] THEN Dropped(dropped, connected_clients, client)
                       ELSE dropped

\* a variant of DeviceCommand that answers to the first registered connection
DeviceCommandToFirst(ws, data, value) ==
    LET response == handle_command(data, value)
        client == IF connected_clients # <<>> THEN connected_clients[1] ELSE ws
    IN
    /\ last' = SendText(client, DeviceTag \o response, ws)
    /\ IF closed[client]
       THEN Disconnected(ws)
       ELSE /\ finished' = NoCall
            /\ UNCHANGED <<connected_clients, pc, idx, text, calls, dropped>>

\* a variant of DeviceCommand that ignores a reply that raises
DeviceCommandSwallows(ws, data, value) ==
    LET response == handle_command(data, value) IN
    /\ last' = SendText(ws, DeviceTag \o response, ws)
    /\ finished' = NoCall
    /\ UNCHANGED <<connected_clients, pc, idx, text, calls, dropped>>

\* lines 121-124: a device command is answered to the sender alone; a reply
\* that raises is caught at line 136
DeviceCommand(ws, data, value) ==
    LET response == handle_command(data, value) IN
    /\ last' = SendText(ws, DeviceTag \o response, ws)
    /\ IF closed[ws]
       THEN Disconnected(ws)
       ELSE /\ finished' = NoCall
            /\ UNCHANGED <<connected_clients, pc, idx, text, calls, dropped>>

\* lines 126-131: a chat message starts a broadcast
ChatMessage(ws, data) ==
    ChatIter(ws, 0, UserTag \o data,
             [calls EXCEPT ![ws] = NewCall("chat", ws, connected_clients)])

\* lines 120-135: receive_text returns a frame, which is classified
Receive(ws) ==
    /\ pc[ws] = "reading"
    /\ frames < MaxFrames
    /\ \E data \in feed :
          IF IsDeviceCommand(data)
          THEN \E value \in SensorValues : DeviceCommand(ws, data, value)
          ELSE ChatMessage(ws, data)
    /\ frames' = frames + 1
    /\ UNCHANGED <<closed, epc, snapshot, eidx, message, reply, feed, wakes>>

\* lines 120, 136-138: receive_text raises WebSocketDisconnect
ReceiveDisconnect(ws) ==
    /\ pc[ws] = "reading"
    /\ closed[ws]
    /\ Disconnected(ws)
    /\ last' = NoSend
    /\ UNCHANGED <<closed, epc, snapshot, eidx, message, reply, feed, frames, wakes>>

\* a variant of ChatStep that waits until the emitter is out of its broadcast
ChatStepAfterEmitter(ws) ==
    /\ pc[ws] = "bcast"
    /\ epc = "waiting"
    /\ ChatIter(ws, idx[ws], text[ws], calls)
    /\ UNCHANGED <<closed, epc, snapshot, eidx, message, reply, feed, frames, wakes>>

\* lines 128-135: the chat loop resumes after a send
ChatStep(ws) ==
    /\ pc[ws] = "bcast"
    /\ ChatIter(ws, idx[ws], text[ws], calls)
    /\ UNCHANGED <<closed, epc, snapshot, eidx, message, reply, feed, frames, wakes>>

\* -------------------------------------------------------------- the emitter
\* line 153: list(connected_clients)
Snapshot(lst) == lst

\* a variant of EmitIter without the try: a send that raises ends the emitter
EmitIterPropagates(snap, i0, msg, cs) ==
    IF i0 >= Len(snap)
    THEN /\ epc' = "waiting"
         /\ snapshot' = <<>>
         /\ eidx' = 0
         /\ message' = <<>>
         /\ calls' = [cs EXCEPT ![Emitter] = NoCall]
         /\ finished' = [cs[Emitter] EXCEPT !.active = FALSE]
         /\ last' = NoSend
         /\ UNCHANGED <<connected_clients, dropped>>
    ELSE LET client == snap[i0 + 1] IN
         /\ epc' = IF closed[client] THEN "ended" ELSE "sending"
         /\ snapshot' = snap
         /\ eidx' = i0 + 1
         /\ message' = msg
         /\ last' = SendText(client, msg, Emitter)
         /\ calls' = NoteSend(cs, connected_clients, Emitter, client)
         /\ finished' = NoCall
         /\ UNCHANGED <<connected_clients, dropped>>

\* lines 153-158: the emitter loop from position i0 to its next await
EmitIter(snap, i0, msg, cs) ==
    IF i0 >= Len(snap)
    THEN /\ epc' = "waiting"
         /\ snapshot' = <<>>
         /\ eidx' = 0
         /\ message' = <<>>
         /\ calls' = [cs EXCEPT ![Emitter] = NoCall]
         /\ finished' = [cs[Emitter] EXCEPT !.active = FALSE]
         /\ last' = NoSend
         /\ UNCHANGED <<connected_clients, dropped>>
    ELSE LET client == snap[i0 + 1] IN
         /\ epc' = "sending"
         /\ snapshot' = snap
         /\ eidx' = i0 + 1
         /\ message' = msg
         /\ last' = SendText(client, msg, Emitter)
         /\ calls' = NoteSend(cs, connected_clients, Emitter, client)
         /\ finished' = NoCall
         /\ connected_clients' = IF closed[client]
                                 THEN Discard(connected_clients, client)
                                 ELSE connected_clients
         /\ dropped' = IF closed[client] THEN Dropped(dropped, connected_clients, client)
                       ELSE dropped

\* a variant of EmitWake that returns when nobody is registered
EmitWakeReturnsWhenEmpty ==
    /\ epc = "waiting"
    /\ wakes < MaxWakes
    /\ wakes' = wakes + 1
    /\ IF connected_clients = <<>>
       THEN /\ epc' = "returned"
            /\ finished' = [NewCall("sensor", Emitter, connected_clients)
                               EXCEPT !.active = FALSE]
            /\ last' = NoSend
            /\ UNCHANGED <<connected_clients, snapshot, eidx, message, calls, dropped>>
       ELSE \E sensor_value \in SensorValues :
               EmitIter(Snapshot(connected_clients), 0, SensorHead \o Str(sensor_value),
                        [calls EXCEPT ![Emitter] =
                            NewCall("sensor", Emitter, connected_clients)])
    /\ UNCHANGED <<pc, idx, text, closed, reply, feed, frames>>

\* lines 150-155: the sleep ends, a reading is drawn and the broadcast starts
EmitWake ==
    /\ epc = "waiting"
    /\ wakes < MaxWakes
    /\ wakes' = wakes + 1
    /\ \E sensor_value \in SensorValues :
          EmitIter(Snapshot(connected_clients), 0, SensorHead \o Str(sensor_value),
                   [calls EXCEPT ![Emitter] =
                       NewCall("sensor", Emitter, connected_clients)])
    /\ UNCHANGED <<pc, idx, text, closed, reply, feed, frames>>

\* lines 153-158: the emitter loop resumes after a send
EmitStep ==
    /\ epc = "sending"
    /\ EmitIter(snapshot, eidx, message, calls)
    /\ UNCHANGED <<pc, idx, text, closed, reply, feed, frames, wakes>>

\* ------------------------------------------------------------ the responder
\* DeviceSimulator.handle_command called with a frame and a drawn reading
Respond ==
    /\ ~reply.made
    /\ \E command \in feed : \E value \in SensorMin..SensorMax :
          reply' = [made |-> TRUE, command |-> command, value |-> value,
                    response |-> handle_command(command, value)]
    /\ UNCHANGED <<connected_clients, pc, idx, text, closed, epc, snapshot, eidx,
                   message, last, calls, finished, dropped, feed, frames, wakes>>

Next ==
    \/ \E ws \in Conn : Connect(ws)
    \/ \E ws \in Conn : ConnectFail(ws)
    \/ \E ws \in Conn : PeerClose(ws)
    \/ \E ws \in Conn : Receive(ws)
    \/ \E ws \in Conn : ReceiveDisconnect(ws)
    \/ \E ws \in Conn : ChatStep(ws)
    \/ EmitWake
    \/ EmitStep

Spec == Init /\ [][Next]_vars

\* The event loop runs every task that is ready: the sleep of line 150 ends
\* and a send_text the emitter awaits returns or raises.
SpecFair == Spec /\ WF_vars(EmitWake) /\ WF_vars(EmitStep)

\* Two clients are connected and the clients send one frame of CmdInputs.
InitCmd ==
    /\ connected_clients = <<1, 2>>
    /\ pc = [c \in Conn |-> IF c <= 2 THEN "reading" ELSE "idle"]
    /\ idx = [c \in Conn |-> 0]
    /\ text = [c \in Conn |-> <<>>]
    /\ closed = [c \in Conn |-> FALSE]
    /\ epc = "waiting"
    /\ snapshot = <<>>
    /\ eidx = 0
    /\ message = <<>>
    /\ last = NoSend
    /\ calls = [x \in Origin |-> NoCall]
    /\ finished = NoCall
    /\ dropped = {}
    /\ reply = NoReply
    /\ \E d \in CmdInputs : feed = {d}
    /\ frames = 0
    /\ wakes = 0

\* the sessions classify the frame and answer or broadcast it
NextCmd ==
    \/ \E ws \in Conn : Receive(ws)
    \/ \E ws \in Conn : ChatStep(ws)

SpecCmd == InitCmd /\ [][NextCmd]_vars

\* the responder alone, on every frame of CmdInputs and every reading
NextResponder == Respond

SpecResponder == InitCmd /\ [][NextResponder]_vars

\* ================================================================== claims
\* the connections whose accept completed and whose session has not ended
Live == {c \in Conn : pc[c] \in {"reading", "bcast"}}

\* the number of sends a call attempted to r
Sends(call, r) == Cardinality({i \in 1..Len(call.att) : call.att[i] = r})

\* the running broadcasts and the one that has just completed
Broadcasts == {calls[x] : x \in {y \in Origin : calls[y].active}}
                  \cup (IF finished.kind = "none" THEN {} ELSE {finished})

\* C1 as stated: the registry holds exactly the connections whose accept
\* completed and whose session has not yet disconnected.
C1_RegistryIsExactlyLive ==
    Elems(connected_clients) = Live

\* C1, amended: the registry holds only connections whose accept completed and
\* whose session has not ended (no leak, no phantom entry), and it holds every
\* such connection except those a failed send has removed.
C1_RegistryIsLiveMinusDropped ==
    /\ Elems(connected_clients) = Live \ dropped
    /\ dropped \subseteq {c \in Live : closed[c]}

\* a session still runs though a failed send removed its connection, the
\* endpoint of another connection has ended, and the registry is not empty
C1_Witness ==
    /\ \E c \in Conn : pc[c] = "reading" /\ c \in dropped
    /\ \E c \in Conn : pc[c] = "done"
    /\ connected_clients # <<>>

\* C2: a chat broadcast never sends to its sender, and one that ran with the
\* sender and N-1 others registered, the registry unchanged and no send failing
\* made exactly N-1 sends, one to each registered connection but the sender.
C2_ChatReachesAllButSender ==
    /\ \A call \in Broadcasts : call.kind = "chat" => ~InList(call.att, call.by)
    /\ (/\ finished.kind = "chat"
        /\ InList(finished.start, finished.by)
        /\ finished.added = {} /\ finished.removed = {} /\ finished.fail = {})
       => /\ Len(finished.att) = Len(finished.start) - 1
          /\ Elems(finished.att) = Elems(finished.start) \ {finished.by}

\* a chat broadcast among three registered connections made its two sends
C2_Witness ==
    /\ finished.kind = "chat"
    /\ Len(finished.start) = 3 /\ InList(finished.start, finished.by)
    /\ finished.added = {} /\ finished.removed = {} /\ finished.fail = {}
    /\ Len(finished.att) = 2

\* C3 as stated: in a chat or emitter broadcast in which the send to one
\* recipient failed, exactly that recipient left the registry and every other
\* connection registered when the broadcast began, but the sender, was sent to.
C3_FailedSendRemovesOnlyThatOne ==
    \A f \in Conn :
       (/\ finished.kind \in {"chat", "sensor"}
        /\ finished.fail = {f}
        /\ InList(finished.start, f)
        /\ finished.added = {} /\ finished.removed \subseteq {f})
       => /\ finished.pruned \subseteq {f}
          /\ finished.removed = {f}
          /\ Elems(finished.start) \ {finished.by, f} \subseteq Elems(finished.att)

\* C4 as stated: when other sessions connect or disconnect during a broadcast,
\* every connection that stayed registered and reachable for the whole call,
\* but the sender, was sent the message exactly once.
C4_StableSnapshot ==
    (/\ finished.kind \in {"chat", "sensor"}
     /\ finished.fail = {}
     /\ finished.by \notin finished.removed)
    => \A r \in Elems(finished.start) \ {finished.by} :
          (r \notin finished.removed /\ ~closed[r]) => Sends(finished, r) = 1

\* C5 as stated: a connection appended to the registry after a broadcast began
\* is not sent the message of that broadcast.
C5_NoRetroactiveDelivery ==
    \A call \in Broadcasts : Elems(call.att) \cap call.added = {}

\* C6: a device response is sent to the connection of the session that
\* received the command, and to no other.
C6_DeviceReplyOnlyToSender ==
    (last.made /\ StartsWith(last.text, DeviceTag)) => last.to = last.src

\* a device response was delivered while another connection was registered and
\* a broadcast was running
C6_Witness ==
    /\ last.made /\ last.ok /\ StartsWith(last.text, DeviceTag)
    /\ Len(connected_clients) >= 2
    /\ \E x \in Origin : calls[x].active

\* C8: an emitter wake with an empty registry makes no send, and leaves the
\* emitter waiting for its next interval.
C8_EmptyWakeIsNoOp ==
    (finished.kind = "sensor" /\ finished.start = <<>>)
    => /\ finished.att = <<>>
       /\ ~last.made
       /\ epc = "waiting"
       /\ connected_clients = <<>>

\* the emitter woke while nobody was registered, after a session had ended
C8_Witness ==
    /\ finished.kind = "sensor" /\ finished.start = <<>>
    /\ wakes = 1
    /\ \E c \in Conn : pc[c] = "done"

\* the trimmed text begins, whatever the letter case, with "/device"
ClaimPrefixed(d) ==
    LET t == Strip(d) IN
    /\ Len(t) >= Len(DevicePrefix)
    /\ \A i \in 1..Len(DevicePrefix) : LowerChar(t[i]) = DevicePrefix[i]

\* the prefix stripped from the trimmed message, the rest trimmed again
Remainder(d) == Strip(DropFirst(Strip(d), Len(DevicePrefix)))

\* C7 as stated: a frame that begins with the prefix is answered to its sender
\* with the Responder's result on the remainder, whatever the remainder is;
\* every other frame is broadcast as chat.
C7_ReplyIsResponderOnRemainder ==
    \A d \in feed :
       last.made =>
          IF ClaimPrefixed(d)
          THEN /\ last.to = last.src
               /\ \E v \in SensorMin..SensorMax :
                     last.text = DeviceTag \o handle_command(Remainder(d), v)
          ELSE /\ last.to # last.src
               /\ last.text = UserTag \o d

\* C7, amended: a frame that begins with the prefix is answered to its sender
\* with the Responder's result on the frame itself, which strips the prefix
\* once: the dispatch on the lower-cased remainder.  That is the Responder's
\* result on the remainder unless the remainder begins with the prefix again,
\* and then the reply is the unknown-command message quoting the remainder.
\* Every other frame is broadcast as chat and never answered.
C7_ReplyIsDispatchOnRemainder ==
    \A d \in feed :
       last.made =>
          IF ClaimPrefixed(d)
          THEN /\ last.to = last.src
               /\ \E v \in SensorMin..SensorMax :
                     /\ last.text = DeviceTag \o Dispatch(Lower(Remainder(d)), v)
                     /\ ~ClaimPrefixed(Remainder(d))
                        => last.text = DeviceTag \o handle_command(Remainder(d), v)
                     /\ ClaimPrefixed(Remainder(d))
                        => last.text = DeviceTag \o UnknownHead \o Lower(Remainder(d))
                                                 \o UnknownTail
          ELSE /\ last.to # last.src
               /\ last.text = UserTag \o d
               /\ ~StartsWith(last.text, DeviceTag)

\* a frame whose remainder begins with the prefix again was answered
C7_Witness ==
    /\ last.made /\ last.ok
    /\ \E d \in feed : ClaimPrefixed(d) /\ ClaimPrefixed(Remainder(d))

\* the command of a Responder input: trimmed, one leading prefix (in any
\* letter case) taken off if there is one, trimmed again
ClaimCommand(d) ==
    LET t == Strip(d) IN
    Strip(IF ClaimPrefixed(t) THEN DropFirst(t, Len(DevicePrefix)) ELSE t)

\* what C9 says of the four recognised commands
RecognisedCommands(c, r) ==
    /\ r.value \in SensorMin..SensorMax
    /\ Lower(c) = StatusWord => r.response = ReadingHead \o Str(r.value) \o <<".">>
    /\ Lower(c) = StartWord => r.response = StartedText
    /\ Lower(c) = StopWord => r.response = StoppedText
    /\ c = <<>> => r.response = UsageText

Unrecognised(c) == Lower(c) \notin {StatusWord, StartWord, StopWord, <<>>}

\* C9 as stated: status, start, stop and the empty command, with or without
\* the prefix and in any letter case, return their fixed texts; any other
\* command returns an unknown-command message that contains the text given.
C9_ResponderTable ==
    reply.made =>
       LET c == ClaimCommand(reply.command) IN
       /\ RecognisedCommands(c, reply)
       /\ Unrecognised(c) => /\ StartsWith(reply.response, UnknownHead)
                             /\ Contains(reply.response, c)

\* C9, amended: as stated, but the unknown-command message quotes the
\* unrecognised text trimmed and in lower case.
C9_ResponderTableLowerCased ==
    reply.made =>
       LET c == ClaimCommand(reply.command) IN
       /\ RecognisedCommands(c, reply)
       /\ Unrecognised(c) => reply.response = UnknownHead \o Lower(c) \o UnknownTail

\* an unrecognised command written with capitals was answered
C9_Witness ==
    /\ reply.made
    /\ Unrecognised(ClaimCommand(reply.command))
    /\ Lower(ClaimCommand(reply.command)) # ClaimCommand(reply.command)
    /\ ClaimPrefixed(reply.command)

\* the first and the second connection to arrive
ClientA == CHOOSE c \in Conn : \A d \in Conn : c <= d
ClientB == ClientA + 1

UserHello == <<"U","s","e","r"," ","➤"," ","h","e","l","l","o">>
DeviceReadingHead ==
    <<"D","e","v","i","c","e"," ","➤"," ","C","u","r","r","e","n","t"," ",
      "s","e","n","s","o","r"," ","r","e","a","d","i","n","g"," ","i","s"," ">>

\* C10: with A and B connected, A's "hello" is sent to B as "User > hello" and
\* not to A; A's "/device status" is answered to A alone with a reading in
\* 0..100; once A's session has ended A is not registered, the registry of A
\* and B holds only B, and no broadcast that starts afterwards sends to A: it
\* sends to B.
C10_EndToEnd ==
    /\ (last.made /\ last.src \in Conn /\ StartsWith(last.text, UserTag))
       => last.to # last.src /\ last.text = UserHello
    /\ (/\ finished.kind = "chat" /\ finished.by = ClientA
        /\ finished.start = <<ClientA, ClientB>>
        /\ finished.added = {} /\ finished.removed = {} /\ finished.fail = {})
       => finished.att = <<ClientB>>
    /\ (last.made /\ last.src \in Conn /\ ~StartsWith(last.text, UserTag))
       => /\ last.to = last.src
          /\ \E v \in SensorMin..SensorMax :
                last.text = DeviceReadingHead \o Str(v) \o <<".">>
    /\ \A c \in Conn : pc[c] = "done" => ~InList(connected_clients, c)
    /\ (pc[ClientA] = "done" /\ Live = {ClientB} /\ dropped = {})
       => connected_clients = <<ClientB>>
    /\ \A call \in Broadcasts : Elems(call.att) \cap call.gone = {}
    /\ (/\ finished.kind \in {"chat", "sensor"} /\ ClientA \in finished.gone
        /\ finished.start = <<ClientB>> /\ finished.added = {})
       => finished.att = (IF finished.by = ClientB THEN <<>> ELSE <<ClientB>>)

\* after two frames were read and A's session ended, an emitter broadcast
\* began with only B registered and sent to B
C10_Witness ==
    /\ finished.kind = "sensor" /\ finished.gone = {ClientA}
    /\ finished.start = <<ClientB>> /\ finished.att = <<ClientB>>
    /\ finished.fail = {}
    /\ frames = 2

\* the list without the members of S, in the same order
Without(lst, S) == SelectSeq(lst, LAMBDA x : x \notin S)

\* no connection is in the list twice
NoDuplicates(lst) == \A i, j \in 1..Len(lst) : lst[i] = lst[j] => i = j

\* The connections a step tries to remove from the registry: the recipient of
\* a send that raised, and the connection whose session ends.
RemovalTargets ==
    {c \in Conn : \/ last'.made /\ ~last'.ok /\ last'.to = c
                  \/ c \in Live /\ pc'[c] = "done"}

\* the send of the step raised for a recipient other than the task that sent
FailedSendToPeer == last'.made /\ ~last'.ok /\ last'.to # last'.src

C13_PeerFailureStaysLocal ==
    [][ (FailedSendToPeer /\ last'.src \in Conn) =>
            /\ pc'[last'.src] = "bcast"
            /\ InList(connected_clients, last'.src)
                  => InList(connected_clients', last'.src)
            /\ ~InList(connected_clients', last'.to)
      ]_vars

\* C13 witness: the chat send of a registered session to a peer has just
\* raised, the peer is out of the registry and the sender is in it, in its loop
C13_Witness ==
    /\ last.made /\ ~last.ok /\ last.src \in Conn /\ last.to # last.src
    /\ pc[last.src] = "bcast"
    /\ InList(connected_clients, last.src)
    /\ ~InList(connected_clients, last.to)
    /\ last.to \in calls[last.src].pruned

\* the step session d is suspended before can be taken
SessionCanStep(d) ==
    /\ pc[d] = "bcast" => ENABLED ChatStep(d)
    /\ (pc[d] = "reading" /\ frames < MaxFrames) => ENABLED Receive(d)
    /\ (pc[d] = "reading" /\ closed[d]) => ENABLED ReceiveDisconnect(d)

\* the step the emitter is suspended before can be taken
EmitterCanStep ==
    /\ epc = "sending" => ENABLED EmitStep
    /\ (epc = "waiting" /\ wakes < MaxWakes) => ENABLED EmitWake

\* C18: a suspended task blocks no other task. Between two steps every task
\* is suspended (a session at receive_text or inside a send_text, the emitter
\* at its sleep or inside a send_text); in every such state each session can
\* take its next step (the send after the one it awaits, a frame that has
\* come, its disconnect) and so can the emitter, whatever the other tasks are
\* suspended at.
C18_SuspensionBlocksNobody ==
    /\ \A d \in Live : SessionCanStep(d)
    /\ EmitterCanStep

\* C18 witness: two sessions and the emitter are all inside a send
C18_Witness ==
    /\ \E c, d \in Conn : c # d /\ pc[c] = "bcast" /\ pc[d] = "bcast"
    /\ epc = "sending"

\* receive_text of session c raises and the handler of line 136 runs
TransportDisconnect(c) == pc[c] = "reading" /\ pc'[c] = "done" /\ ~last'.made

\* C14: a transport disconnect tears down one session only. The step in which
\* receive_text of c raises takes c, and nothing else, out of the registry,
\* and leaves the position, the iterator and the pending text of every other
\* session, the state of every transport and the emitter's position, snapshot
\* and message as they were; and in every state in which some session has
\* ended, the other sessions and the emitter can take their next steps.
C14_DisconnectTearsDownOneSession ==
    /\ [][ \A c \in Conn : TransportDisconnect(c) =>
              /\ connected_clients' = Without(connected_clients, {c})
              /\ \A d \in Conn \ {c} :
                    pc'[d] = pc[d] /\ idx'[d] = idx[d] /\ text'[d] = text[d]
              /\ UNCHANGED <<closed, epc, snapshot, eidx, message>>
         ]_vars
    /\ []((\E c \in Conn : pc[c] = "done")
             => (EmitterCanStep /\ \A d \in Live : SessionCanStep(d)))

\* C14 witness: c was registered when d began its broadcast, c's transport
\* disconnected and its handler removed it (no send to c raised, no device
\* reply was made: d's chat message is the only frame read); d is still
\* inside its broadcast, the emitter inside its own, a third is registered.
C14_Witness ==
    \E c, d \in Conn :
        /\ c # d
        /\ pc[c] = "done" /\ pc[d] = "bcast" /\ epc = "sending"
        /\ frames = 1
        /\ c \in calls[d].removed
        /\ c \notin calls[d].fail /\ c \notin calls[Emitter].fail
        /\ Len(connected_clients) >= 2

\* C15: the registry holds no connection twice, and every connection in it
\* has completed its accept (its session has begun and has not ended).
C15_NoDuplicateIdentities ==
    /\ NoDuplicates(connected_clients)
    /\ \A c \in Elems(connected_clients) : pc[c] # "idle" /\ c \in Live

\* C15 witness: every connection has been accepted and is registered
C15_Witness ==
    /\ Len(connected_clients) = NConn
    /\ Elems(connected_clients) = Conn

\* the device reply of session c to its own connection raises
FailedReply(c) == last'.made /\ ~last'.ok /\ last'.to = c /\ last'.src = c

\* C17: when the device reply to the originating connection raises, that
\* connection leaves the registry and that session ends; every other registry
\* entry stays, every other session and the emitter stay where they were, and
\* the failed reply is the only send of the step.
C17_FailedReplyEndsOnlyThatSession ==
    [][ \A c \in Conn : FailedReply(c) =>
           /\ connected_clients' = Without(connected_clients, {c})
           /\ pc'[c] = "done"
           /\ \A d \in Conn \ {c} :
                 pc'[d] = pc[d] /\ idx'[d] = idx[d] /\ text'[d] = text[d]
           /\ UNCHANGED <<closed, epc, snapshot, eidx, message>>
      ]_vars

\* C17 witness: a device reply has just raised, its session has ended, and
\* another session stands inside its broadcast with its connection registered
C17_Witness ==
    /\ last.made /\ ~last.ok /\ last.to = last.src /\ last.src \in Conn
    /\ pc[last.src] = "done"
    /\ ~InList(connected_clients, last.src)
    /\ \E d \in Conn : pc[d] = "bcast" /\ InList(connected_clients, d)

\* C19: registry membership is monotone after removal. A connection that has
\* been accepted or refused and is not in the registry is not in the registry
\* after any step, also while its session goes on reading.
C19_NeverRegisteredAgain ==
    [][ \A c \in Conn : (pc[c] # "idle" /\ ~InList(connected_clients, c))
                           => ~InList(connected_clients', c) ]_vars

\* C19 witness: a failed send removed c, whose session went on, read a chat
\* message and stands inside its broadcast, still out of the registry
C19_Witness ==
    \E c \in Conn :
        /\ c \in dropped
        /\ pc[c] = "bcast"
        /\ calls[c].active /\ ~InList(calls[c].start, c)
        /\ ~InList(connected_clients, c)

====
